---- MODULE Spec2Model ----
(***************************************************************************)
(* Door2Dock bike collector (src/bike_collector.py): the station           *)
(* discovery, the collection cycle and the three scheduler modes, as a     *)
(* state machine over the SQLite store (monitored_stations and             *)
(* bike_availability), the upstream feed and the position of the single    *)
(* Python thread.                                                          *)
(*                                                                         *)
(* Distances are kept in decimetres (tenths of a metre), so that the       *)
(* difference between the computed distance and round(distance) that the   *)
(* code stores is visible.  haversine is tabulated on the coordinates the  *)
(* feed entries below use; the table holds the values the source formula   *)
(* gives for them.                                                         *)
(***************************************************************************)
EXTENDS Integers, Sequences, FiniteSets, TLC

VARIABLES
    argv,          \* the mode flag of the running process ("" = continuous)
    pc,            \* position of the Python thread
    runs,          \* process invocations so far on this database
    upstream,      \* the catalog the TfL endpoint currently serves
    registry,      \* table monitored_stations: station_id -> row or NoRow
    readings,      \* table bike_availability, committed rows in id order
    txn,           \* rows inserted on the open connection, not yet committed
    clock,         \* wall clock (datetime.now)
    caller,        \* who called discover_stations: "main" or "collect"
    station_ids,   \* collect_once: local station_ids
    now_utc,       \* collect_once: local now_utc
    station_map,   \* collect_once: local station_map (id -> entry or NoRow)
    todo,          \* collect_once: identifiers the for loop has not visited
    collected,     \* collect_once: local collected
    nearby,        \* discover_stations: local nearby / its return value
    outcome,       \* what the last collect_once call returned
    cycles,        \* scheduler: collect_once calls started by this process
    sleeps,        \* scheduler: time.sleep calls made by this process
    interrupted,   \* a KeyboardInterrupt has been delivered to this process
    statsShown,    \* show_stats has run in this process
    cycle,         \* history: number of the current cycle on this database
    atStart,       \* history: registry and reading count when the cycle began
    atFetch,       \* history: registry when the collection fetch was made
    calls,         \* history: per cycle, calls made (discover, fetch, load)
    fetched,       \* history: the catalog the cycle's collection fetch got
    atDiscovery,   \* history: registry when the last Discovery began
    feed,          \* history: who made the last fetch, and how it ended
    discovered,    \* history: the catalog the last completed Discovery saw
    cut            \* history: where the interrupt found the process

vars == <<argv, pc, runs, upstream, registry, readings, txn, clock, caller,
          station_ids, now_utc, station_map, todo, collected, nearby, outcome,
          cycles, sleeps, interrupted, statsShown, cycle, atStart, atFetch,
          calls, fetched, atDiscovery, feed, discovered, cut>>

----------------------------------------------------------------------------
(* Configuration (module constants of the script) *)

SEARCH_RADIUS_M == 800

BurstCycles == 5

(* Bounds of the model *)

MaxRuns == 3          \* process invocations against one database

MaxLoop == 3          \* cycles a continuous run is followed for

----------------------------------------------------------------------------
(* The feed: entries of the catalog *)

Absent == "absent"    \* a key the JSON object does not have

NoRow == [none |-> TRUE]

StationIds == {"S1", "S2", "S3"}

KP(k, v) == [key |-> k, value |-> v]

Entry(i, n, p, ap) ==
    [id |-> i, commonName |-> n, pos |-> p, additionalProperties |-> ap]

\* S1 at the reference point, the scenario of the specification
eQueens == Entry("S1", "Queens Gate", "P0",
    << KP("TerminalName", "1023"), KP("Installed", "true"),
       KP("Locked", "false"), KP("NbBikes", "4"), KP("NbStandardBikes", "3"),
       KP("NbEBikes", "1"), KP("NbEmptyDocks", "4"), KP("NbDocks", "8") >>)

\* S1 renamed and moved to 799.5 m, reporting no property at all
eQueensBare == Entry("S1", "Queens Gate West", "PNear", << >>)

\* S1 not installed
eQueensOff == Entry("S1", "Queens Gate", "P0",
    << KP("Installed", "false"), KP("Locked", "false"), KP("NbBikes", "0"),
       KP("NbDocks", "8") >>)

\* S2 at 400.3 m, some counts missing
eExhibition == Entry("S2", "Exhibition Road", "PMid",
    << KP("Installed", "true"), KP("Locked", "false"), KP("NbBikes", "2"),
       KP("NbEBikes", "2"), KP("NbDocks", "8") >>)

\* S2 locked
eExhibitionLocked == Entry("S2", "Exhibition Road", "PMid",
    << KP("Installed", "true"), KP("Locked", "true"), KP("NbBikes", "2"),
       KP("NbDocks", "8") >>)

\* S2 at 800.27 m: outside the radius, although round() gives 800
eExhibitionEdge == Entry("S2", "Exhibition Road North", "PEdge",
    << KP("Installed", "true"), KP("Locked", "false"), KP("NbBikes", "1"),
       KP("NbDocks", "8") >>)

\* S2 without the lat and lon keys
eExhibitionNoPos == Entry("S2", "Exhibition Road", Absent,
    << KP("Installed", "true"), KP("Locked", "false"), KP("NbBikes", "2") >>)

\* S3 at 1501 m
eHyde == Entry("S3", "Hyde Park Corner", "PFar",
    << KP("Installed", "true"), KP("Locked", "false"), KP("NbBikes", "3"),
       KP("NbStandardBikes", "3"), KP("NbEBikes", "0"),
       KP("NbEmptyDocks", "5"), KP("NbDocks", "8") >>)

\* The payloads the endpoint serves in this model
Catalogs ==
    { << >>,
      << eQueens, eExhibition >>,
      << eExhibition, eQueens, eHyde >>,
      << eQueensBare, eExhibitionEdge >>,
      << eQueensOff, eExhibitionLocked >>,
      << eQueens, eQueensBare >>,
      << eQueensBare, eQueens, eExhibitionLocked >>,
      << eQueens, eExhibitionNoPos >>,
      << eHyde >> }

\* The payloads of the scheduler runs (the feed does not change during a run)
SchedCatalogs ==
    { << eQueens, eExhibition >>,
      << eQueensBare, eExhibitionLocked >>,
      << eQueens, eExhibitionNoPos >> }

\* How a call of the endpoint can end
FeedOutcomes == {"ok", "timeout", "status", "payload"}

\* The exception fetch_all_stations raises for an outcome: a timeout and a
\* non-2xx status raise a requests.RequestException; a malformed payload
\* raises one when the body is not JSON (requests.JSONDecodeError), and a
\* TypeError from len() when the body is JSON but no list (null, a number)
Raised(o) ==
    CASE o = "timeout" -> {"RequestException"}
      [] o = "status"  -> {"RequestException"}
      [] o = "payload" -> {"RequestException", "TypeError"}
      [] OTHER         -> {}

----------------------------------------------------------------------------
(* Pure helpers *)

\* haversine(IMPERIAL_LAT, IMPERIAL_LON, lat, lon) in decimetres; an entry
\* without lat/lon is measured at (0, 0), the defaults of station.get
haversine(p) ==
    CASE p = "P0"    -> 0
      [] p = "PMid"  -> 4003
      [] p = "PNear" -> 7995
      [] p = "PEdge" -> 8002
      [] p = "PFar"  -> 15011
      [] OTHER       -> 57264289

\* Python's round() of a distance: the nearest metre (d is the distance cut
\* to decimetres; none of the tabulated distances is an exact half)
Round(d) == IF d % 10 >= 5 THEN d \div 10 + 1 ELSE d \div 10

RecognisedKeys ==
    {"NbBikes", "NbEBikes", "NbEmptyDocks", "NbDocks", "NbStandardBikes",
     "Installed", "Locked"}

\* parse_properties: the recognised keys of the list, a later pair
\* overriding an earlier one with the same key
RECURSIVE parse_properties(_)
parse_properties(ap) ==
    IF ap = << >> THEN [k \in RecognisedKeys |-> Absent]
    ELSE LET n == Len(ap)
             rest == parse_properties(SubSeq(ap, 1, n - 1))
         IN  IF ap[n].key \in RecognisedKeys
             THEN [rest EXCEPT ![ap[n].key] = ap[n].value]
             ELSE rest

\* int(props.get(key, 0)): the number a one-digit string of the feed
\* denotes, and 0 when the key is missing
IntOf(props, k) ==
    LET v == props[k]
    IN  CASE v = Absent -> 0
          [] v = "0" -> 0 [] v = "1" -> 1 [] v = "2" -> 2 [] v = "3" -> 3
          [] v = "4" -> 4 [] v = "5" -> 5 [] v = "6" -> 6 [] v = "7" -> 7
          [] v = "8" -> 8 [] v = "9" -> 9

----------------------------------------------------------------------------
(* Discovery: discover_stations *)

\* the test of line 153 on a computed distance (decimetres)
KeepByRounded(dist) == Round(dist) <= SEARCH_RADIUS_M

Keep(dist) == dist <= SEARCH_RADIUS_M * 10

\* the dict appended to nearby for a kept station
NearbyOf(station) ==
    [station_id   |-> station.id,
     station_name |-> station.commonName,
     pos          |-> station.pos,
     distance_m   |-> Round(haversine(station.pos))]

\* the for loop of lines 148-165
RECURSIVE Filter(_)
Filter(all_stations) ==
    IF all_stations = << >> THEN << >>
    ELSE LET n == Len(all_stations)
             station == all_stations[n]
             rest == Filter(SubSeq(all_stations, 1, n - 1))
         IN  IF Keep(haversine(station.pos))
             THEN Append(rest, NearbyOf(station))
             ELSE rest

\* list.sort(key=distance_m): stable, ascending
RECURSIVE InsertSorted(_, _)
InsertSorted(sorted, s) ==
    IF sorted = << >> THEN << s >>
    ELSE LET n == Len(sorted)
         IN  IF sorted[n].distance_m <= s.distance_m
             THEN Append(sorted, s)
             ELSE Append(InsertSorted(SubSeq(sorted, 1, n - 1), s), sorted[n])

RECURSIVE SortByDistance(_)
SortByDistance(list) ==
    IF list = << >> THEN << >>
    ELSE LET n == Len(list)
         IN  InsertSorted(SortByDistance(SubSeq(list, 1, n - 1)), list[n])

RegistryRow(s) ==
    [station_name |-> s.station_name, pos |-> s.pos,
     distance_m |-> s.distance_m]

\* a replace that deletes the row it finds and inserts only a new key
UpsertToggle(reg, s) ==
    IF reg[s.station_id] = NoRow
    THEN [reg EXCEPT ![s.station_id] = RegistryRow(s)]
    ELSE [reg EXCEPT ![s.station_id] = NoRow]

\* INSERT OR REPLACE INTO monitored_stations, by primary key
Upsert(reg, s) == [reg EXCEPT ![s.station_id] = RegistryRow(s)]

\* the for loop of lines 170-176, committed at line 177
\* a Discovery that replaces the registry by the stations it has just found
UpsertAllReplacing(reg, list) ==
    [i \in StationIds |->
        LET at == {k \in 1..Len(list) : list[k].station_id = i}
        IN  IF at = {} THEN NoRow
            ELSE RegistryRow(list[CHOOSE k \in at : \A j \in at : j <= k])]

RECURSIVE UpsertAll(_, _)
UpsertAll(reg, list) ==
    IF list = << >> THEN reg
    ELSE UpsertAll(Upsert(reg, Head(list)), Tail(list))

\* a registry load that lists every station identifier there is
all_station_ids(reg) == StationIds

\* get_monitored_station_ids, as the set of the identifiers it lists
get_monitored_station_ids(reg) == {i \in StationIds : reg[i] # NoRow}

----------------------------------------------------------------------------
(* Collection: collect_once *)

\* a cycle that runs Discovery before every collection
DiscoveryAlways(ids) == TRUE

\* a collector without the Discovery fallback
DiscoveryNever(ids) == FALSE

\* "if not station_ids" of line 205
DiscoveryNeeded(ids) == ids = {}

\* station_map = {s["id"]: s for s in all_stations}: the last entry wins
RECURSIVE StationMap(_)
StationMap(all_stations) ==
    IF all_stations = << >> THEN [i \in StationIds |-> NoRow]
    ELSE LET n == Len(all_stations)
         IN  [StationMap(SubSeq(all_stations, 1, n - 1))
                 EXCEPT ![all_stations[n].id] = all_stations[n]]

\* a test that forgets the locked flag
ServiceableIgnoringLock(props) == ~(props["Installed"] = "false")

\* the negation of the skip test of lines 234-235
Serviceable(props) ==
    ~(props["Installed"] = "false" \/ props["Locked"] = "true")

\* a timestamp taken at each insert
RowTimestampNow(now, clk) == clk

\* the timestamp bound to the INSERT (line 245)
RowTimestamp(now, clk) == now

\* the tuple of lines 244-255 can be built: station["lat"] and
\* station["lon"] raise KeyError when the entry lacks them
CanBuildRow(station) == station.pos # Absent /\ station.commonName # Absent

\* a row that takes the station's name and coordinates from its registry
\* row instead of the catalog entry
ReadingRowFromRegistry(station, props, ts, cyc) ==
    [cycle           |-> cyc,
     timestamp       |-> ts,
     station_id      |-> station.id,
     station_name    |-> registry[station.id].station_name,
     available_bikes |-> IntOf(props, "NbBikes"),
     standard_bikes  |-> IntOf(props, "NbStandardBikes"),
     ebikes          |-> IntOf(props, "NbEBikes"),
     empty_docks     |-> IntOf(props, "NbEmptyDocks"),
     total_docks     |-> IntOf(props, "NbDocks"),
     pos             |-> registry[station.id].pos]

\* the VALUES tuple of the INSERT, lines 243-255
ReadingRow(station, props, ts, cyc) ==
    [cycle           |-> cyc,
     timestamp       |-> ts,
     station_id      |-> station.id,
     station_name    |-> station.commonName,
     available_bikes |-> IntOf(props, "NbBikes"),
     standard_bikes  |-> IntOf(props, "NbStandardBikes"),
     ebikes          |-> IntOf(props, "NbEBikes"),
     empty_docks     |-> IntOf(props, "NbEmptyDocks"),
     total_docks     |-> IntOf(props, "NbDocks"),
     pos             |-> station.pos]

\* a connection in autocommit mode: the row is in the table at once
StoreAutocommit(rd, row) == Append(rd, row)

\* what conn.execute(INSERT) leaves in the table other connections see:
\* the row stays in the connection's open transaction until conn.commit()
StoreAfterInsert(rd, row) == rd

----------------------------------------------------------------------------
(* Scheduler *)

\* a burst that sleeps after every cycle
BurstSleepsAlways(i, n) == TRUE

\* "if i < cycles - 1" of line 301
BurstSleeps(i, n) == i < n - 1

OneShotModes == {"--discover", "--stats", "--once"}

SchedulerModes == {"--burst", ""}

\* positions inside collect_once (and the Discovery it calls)
InCycle ==
    pc \in {"d_fetch", "d_upsert", "c_reload", "c_fetch", "c_loop", "c_report"}
        /\ caller = "collect"

\* positions of run_continuous covered by "try: ... except
\* KeyboardInterrupt" (lines 285-289); the first collect_once call of
\* line 283 is made before the try
InTry ==
    \/ pc = "sleep"
    \/ pc = "collect" /\ cycles >= 1
    \/ pc = "returned" /\ cycles >= 2
    \/ InCycle /\ cycles >= 2

EmptyRegistry == [i \in StationIds |-> NoRow]

NoCalls == [discover |-> 0, fetch |-> 0, load |-> 0, cfetch |-> 0]

NoHistory == [registry |-> EmptyRegistry, n |-> 0]

NoCatalog == [seen |-> FALSE, catalog |-> << >>]

NoFeed == [by |-> "none", outcome |-> "none"]

----------------------------------------------------------------------------
(* Initial states: a fresh database, one process about to start *)

InitWith(modes, catalogs) ==
    /\ argv \in modes
    /\ upstream \in catalogs
    /\ pc = "start"
    /\ runs = 1
    /\ registry = EmptyRegistry
    /\ readings = << >>
    /\ txn = << >>
    /\ clock = 0
    /\ caller = "main"
    /\ station_ids = {}
    /\ now_utc = 0
    /\ station_map = [i \in StationIds |-> NoRow]
    /\ todo = {}
    /\ collected = 0
    /\ nearby = << >>
    /\ outcome = "none"
    /\ cycles = 0
    /\ sleeps = 0
    /\ interrupted = FALSE
    /\ statsShown = FALSE
    /\ cycle = 0
    /\ atStart = NoHistory
    /\ atFetch = EmptyRegistry
    /\ calls = NoCalls
    /\ fetched = NoCatalog
    /\ atDiscovery = EmptyRegistry
    /\ feed = NoFeed
    /\ discovered = NoCatalog
    /\ cut = "no"

Init == InitWith(OneShotModes, Catalogs)

InitSched == InitWith(SchedulerModes, SchedCatalogs)

----------------------------------------------------------------------------
(* Actions *)

db == <<registry, readings, txn>>
locals == <<station_ids, now_utc, station_map, todo, collected>>
sched == <<cycles, sleeps, interrupted, statsShown, cut>>
proc == <<argv, runs, upstream>>
hist == <<cycle, atStart, atFetch, calls, fetched, atDiscovery, feed,
          discovered>>

\* a schema bootstrap that drops and recreates both tables
init_db_recreate(store) == [registry |-> EmptyRegistry, readings |-> << >>]

\* init_db (lines 55-96): CREATE TABLE IF NOT EXISTS for both tables, so
\* a table that exists keeps its rows
init_db(store) == store

\* __main__ (lines 370-388): init_db runs first, then the flag selects the
\* mode
Main ==
    /\ pc = "start"
    /\ LET store == init_db([registry |-> registry, readings |-> readings])
       IN /\ registry' = store.registry
          /\ readings' = store.readings
    /\ pc' = CASE argv = "--discover" -> "d_fetch"
               [] argv = "--stats"    -> "stats"
               [] OTHER               -> "collect"
    /\ caller' = "main"
    /\ UNCHANGED <<txn, locals, sched, proc, hist, clock, nearby, outcome>>

\* an exception nothing catches ends the process; the open connection is
\* dropped with its transaction
Crash ==
    /\ pc' = "crashed"
    /\ txn' = << >>

\* where discover_stations returns to
AfterDiscovery == IF caller = "main" THEN "exit" ELSE "c_reload"

\* discover_stations, lines 141-167: the fetch, the filter and the sort
DiscoverFetch ==
    /\ pc = "d_fetch"
    /\ atDiscovery' = registry
    /\ \E o \in FeedOutcomes :
        /\ feed' = [by |-> "discover", outcome |-> o]
        /\ calls' = [calls EXCEPT !.fetch = @ + 1]
        /\ IF o = "ok"
           THEN /\ nearby' = SortByDistance(Filter(upstream))
                /\ pc' = "d_upsert"
                /\ txn' = txn
           ELSE \E ex \in Raised(o) :
                IF ex = "RequestException"
                THEN /\ nearby' = << >>
                     /\ pc' = AfterDiscovery
                     /\ txn' = txn
                ELSE /\ Crash
                     /\ nearby' = nearby
    /\ UNCHANGED <<registry, readings, locals, sched, proc, clock, caller,
                   outcome, cycle, atStart, atFetch, fetched, discovered>>

\* discover_stations, lines 169-187: the upserts, committed together
DiscoverUpsert ==
    /\ pc = "d_upsert"
    /\ registry' = UpsertAll(registry, nearby)
    /\ discovered' = [seen |-> TRUE, catalog |-> upstream]
    /\ pc' = AfterDiscovery
    /\ UNCHANGED <<readings, txn, locals, sched, proc, clock, caller, nearby,
                   outcome, cycle, atStart, atFetch, calls, fetched,
                   atDiscovery, feed>>

\* collect_once, lines 203-207: load the registry, call Discovery if empty
CollectLoad ==
    /\ pc = "collect"
    /\ argv = "" => cycles < MaxLoop
    /\ LET ids == get_monitored_station_ids(registry)
           disc == DiscoveryNeeded(ids)
       IN  /\ station_ids' = ids
           /\ pc' = IF disc THEN "d_fetch" ELSE "c_fetch"
           /\ calls' = [NoCalls EXCEPT !.load = 1,
                                 !.discover = IF disc THEN 1 ELSE 0]
    /\ caller' = "collect"
    /\ cycles' = cycles + 1
    /\ cycle' = cycle + 1
    /\ atStart' = [registry |-> registry, n |-> Len(readings)]
    /\ collected' = 0
    /\ outcome' = "none"
    /\ feed' = NoFeed
    /\ fetched' = NoCatalog
    /\ todo' = {}
    /\ UNCHANGED <<db, now_utc, station_map, sleeps, interrupted, statsShown,
                   cut, proc, clock, nearby, atFetch, atDiscovery, discovered>>

\* collect_once, lines 208-211: reload after Discovery
CollectReload ==
    /\ pc = "c_reload"
    /\ LET ids == get_monitored_station_ids(registry)
       IN  /\ station_ids' = ids
           /\ IF ids = {}
              THEN /\ outcome' = "error"
                   /\ pc' = "returned"
              ELSE /\ outcome' = outcome
                   /\ pc' = "c_fetch"
    /\ calls' = [calls EXCEPT !.load = @ + 1]
    /\ UNCHANGED <<db, now_utc, station_map, todo, collected, sched, proc,
                   clock, caller, nearby, cycle, atStart, atFetch, fetched,
                   atDiscovery, feed, discovered>>

\* collect_once, lines 213-223: the cycle's timestamp, the fetch, the lookup
CollectFetch ==
    /\ pc = "c_fetch"
    /\ now_utc' = clock
    /\ clock' = clock + 1
    /\ atFetch' = registry
    /\ \E o \in FeedOutcomes :
        /\ feed' = [by |-> "collect", outcome |-> o]
        /\ calls' = [calls EXCEPT !.fetch = @ + 1, !.cfetch = @ + 1]
        /\ IF o = "ok"
           THEN /\ station_map' = StationMap(upstream)
                /\ fetched' = [seen |-> TRUE, catalog |-> upstream]
                /\ todo' = station_ids
                /\ pc' = "c_loop"
                /\ UNCHANGED <<txn, outcome>>
           ELSE \E ex \in Raised(o) :
                IF ex = "RequestException"
                THEN /\ outcome' = "error"
                     /\ pc' = "returned"
                     /\ UNCHANGED <<txn, station_map, todo, fetched>>
                ELSE /\ Crash
                     /\ UNCHANGED <<outcome, station_map, todo, fetched>>
    /\ UNCHANGED <<registry, readings, station_ids, collected, sched, proc,
                   caller, nearby, cycle, atStart, atDiscovery, discovered>>

\* collect_once, lines 226-256: one pass of the for loop.  The order of
\* the SELECT of get_monitored_station_ids is not specified, so any
\* identifier not yet visited may be next
CollectInsert ==
    /\ pc = "c_loop"
    /\ \E sid \in todo :
        LET station == station_map[sid]
            props == parse_properties(station.additionalProperties)
        IN  /\ todo' = todo \ {sid}
            /\ IF station = NoRow \/ ~Serviceable(props)
               THEN UNCHANGED <<pc, txn, readings, collected, clock>>
               ELSE IF ~CanBuildRow(station)
               THEN /\ Crash
                    /\ UNCHANGED <<readings, collected, clock>>
               ELSE LET row == ReadingRow(station, props,
                                          RowTimestamp(now_utc, clock), cycle)
                    IN  /\ txn' = Append(txn, row)
                        /\ readings' = StoreAfterInsert(readings, row)
                        /\ collected' = collected + 1
                        /\ clock' = clock + 1
                        /\ pc' = pc
    /\ UNCHANGED <<registry, station_ids, now_utc, station_map, sched, proc,
                   hist, caller, nearby, outcome>>

\* collect_once, line 258: conn.commit() after the loop
CollectCommit ==
    /\ pc = "c_loop"
    /\ todo = {}
    /\ readings' = readings \o txn
    /\ txn' = << >>
    /\ pc' = "c_report"
    /\ UNCHANGED <<registry, locals, sched, proc, hist, clock, caller,
                   nearby, outcome>>

\* a cycle that counts as failed when it has written no row
collect_result_by_rows(n) == IF n = 0 THEN "error" ELSE "ok"

\* collect_once, line 267: the value returned after the commit, whatever
\* the number of rows the cycle has written
collect_result(n) == "ok"

\* collect_once, lines 259-267: close, count the table, print, return "ok"
CollectReport ==
    /\ pc = "c_report"
    /\ outcome' = collect_result(collected)
    /\ pc' = "returned"
    /\ UNCHANGED <<db, locals, sched, proc, hist, clock, caller, nearby>>

\* --once (line 384): collect_once has returned, the process ends
OnceDone ==
    /\ pc = "returned"
    /\ argv = "--once"
    /\ pc' = "exit"
    /\ UNCHANGED <<db, locals, sched, proc, hist, clock, caller, nearby,
                   outcome>>

\* where the for loop of run_burst goes after pass i (cycles = i + 1)
BurstNext == IF cycles < BurstCycles THEN "collect" ELSE "exit"

\* run_burst, lines 300-303: collect_once has returned in pass i
BurstStep ==
    /\ pc = "returned"
    /\ argv = "--burst"
    /\ IF BurstSleeps(cycles - 1, BurstCycles)
       THEN /\ pc' = "sleep"
            /\ sleeps' = sleeps + 1
       ELSE /\ pc' = BurstNext
            /\ sleeps' = sleeps
    /\ UNCHANGED <<db, locals, cycles, interrupted, statsShown, cut, proc,
                   hist, clock, caller, nearby, outcome>>

\* run_continuous, lines 286-287: collect_once has returned, sleep
ContinuousStep ==
    /\ pc = "returned"
    /\ argv = ""
    /\ pc' = "sleep"
    /\ sleeps' = sleeps + 1
    /\ UNCHANGED <<db, locals, cycles, interrupted, statsShown, cut, proc,
                   hist, clock, caller, nearby, outcome>>

\* time.sleep returns (lines 287 and 303)
Wake ==
    /\ pc = "sleep"
    /\ pc' = IF argv = "--burst" THEN BurstNext ELSE "collect"
    /\ clock' = clock + 1
    /\ UNCHANGED <<db, locals, sched, proc, hist, caller, nearby, outcome>>

\* Ctrl+C while run_continuous runs: Python raises KeyboardInterrupt in the
\* main thread wherever it is.  Inside the try the handler of lines 289-291
\* runs show_stats; before it the exception ends the process.  Either way
\* the connection collect_once had open is dropped with its transaction
Interrupt ==
    /\ argv = ""
    /\ ~interrupted
    /\ pc \in {"collect", "returned", "sleep"} \/ InCycle
    /\ interrupted' = TRUE
    /\ cut' = IF ~InCycle THEN "between"
              ELSE IF pc = "c_report" THEN "after commit"
              ELSE "before commit"
    /\ txn' = << >>
    /\ pc' = IF InTry THEN "stats" ELSE "crashed"
    /\ UNCHANGED <<registry, readings, locals, cycles, sleeps, statsShown,
                   proc, hist, clock, caller, nearby, outcome>>

\* show_stats (lines 311-364): aggregate queries, nothing is written
show_stats ==
    /\ pc = "stats"
    /\ statsShown' = TRUE
    /\ pc' = "exit"
    /\ UNCHANGED <<db, locals, cycles, sleeps, interrupted, cut, proc, hist,
                   clock, caller, nearby, outcome>>

\* the endpoint serves another catalog; the program sees it at its next
\* fetch, so the change is taken right before one
FeedChanges(pool) ==
    /\ pc \in {"d_fetch", "c_fetch"}
    /\ upstream' \in pool \ {upstream}
    /\ UNCHANGED <<argv, runs, pc, db, locals, sched, hist, clock, caller,
                   nearby, outcome>>

\* the script is started again on the same database (cron, a shell)
Restart ==
    /\ pc \in {"exit", "crashed"}
    /\ runs < MaxRuns
    /\ runs' = runs + 1
    /\ argv' \in OneShotModes
    /\ pc' = "start"
    /\ caller' = "main"
    /\ station_ids' = {}
    /\ now_utc' = 0
    /\ station_map' = [i \in StationIds |-> NoRow]
    /\ todo' = {}
    /\ collected' = 0
    /\ nearby' = << >>
    /\ outcome' = "none"
    /\ cycles' = 0
    /\ sleeps' = 0
    /\ interrupted' = FALSE
    /\ statsShown' = FALSE
    /\ cut' = "no"
    /\ calls' = NoCalls
    /\ feed' = NoFeed
    /\ fetched' = NoCatalog
    /\ atStart' = NoHistory
    /\ atFetch' = EmptyRegistry
    /\ atDiscovery' = EmptyRegistry
    /\ clock' = clock + 1
    /\ UNCHANGED <<db, upstream, cycle, discovered>>

----------------------------------------------------------------------------
(* Specifications *)

Cycle ==
    \/ Main
    \/ DiscoverFetch
    \/ DiscoverUpsert
    \/ CollectLoad
    \/ CollectReload
    \/ CollectFetch
    \/ CollectInsert
    \/ CollectCommit
    \/ CollectReport

\* the one-shot modes, run again and again on one database
Next ==
    \/ Cycle
    \/ OnceDone
    \/ show_stats
    \/ FeedChanges(Catalogs)
    \/ Restart

Spec == Init /\ [][Next]_vars

\* one run of a scheduler mode (--burst or continuous) on a fresh database
NextSched ==
    \/ Cycle
    \/ BurstStep
    \/ ContinuousStep
    \/ Wake
    \/ Interrupt
    \/ show_stats
    \/ FeedChanges(SchedCatalogs)

SpecSched == InitSched /\ [][NextSched]_vars

----------------------------------------------------------------------------
(* Properties *)

\* the rows the current (or last) cycle of this process has inserted,
\* committed or not
CycleRows ==
    LET all == readings \o txn
    IN  IF cycles = 0 THEN {}
        ELSE {all[k] : k \in {j \in 1..Len(all) : all[j].cycle = cycle}}

\* the entry of a fetched catalog that the lookup holds for an identifier:
\* the last one listed with it
LastEntry(catalog, sid) ==
    LET at == {k \in 1..Len(catalog) : catalog[k].id = sid}
    IN  catalog[CHOOSE k \in at : \A j \in at : j <= k]

Listed(catalog, sid) == \E k \in 1..Len(catalog) : catalog[k].id = sid

\* the value a catalog entry gives for a property key, Absent if it has none
Flag(entry, k) == parse_properties(entry.additionalProperties)[k]

\* C1: every Reading row a cycle inserts is for a station the fetched
\* catalog lists, and whose entry there is neither flagged not installed
\* nor flagged locked
C1_NoReadingForUnserviceable ==
    \A r \in CycleRows :
        /\ fetched.seen
        /\ Listed(fetched.catalog, r.station_id)
        /\ Flag(LastEntry(fetched.catalog, r.station_id), "Installed") # "false"
        /\ Flag(LastEntry(fetched.catalog, r.station_id), "Locked") # "true"

\* a finished cycle that wrote S1 and skipped the monitored S2, which the
\* catalog lists as locked
C1_Witness ==
    /\ pc = "returned"
    /\ outcome = "ok"
    /\ station_ids = {"S1", "S2"}
    /\ {r.station_id : r \in CycleRows} = {"S1"}
    /\ Listed(fetched.catalog, "S2")
    /\ Flag(LastEntry(fetched.catalog, "S2"), "Locked") = "true"

\* C2 (as claimed): when the collection fetch of a cycle fails, the cycle
\* reports the failure outcome, has inserted no Reading row and has left
\* the registry as it was when the cycle started
C2_FailedFetchReportsAndWritesNothing ==
    (feed.by = "collect" /\ feed.outcome # "ok")
        => /\ outcome = "error"
           /\ Len(readings) = atStart.n
           /\ txn = << >>
           /\ registry = atStart.registry

\* C3 (as claimed): in burst and continuous mode a feed failure of any kind
\* never ends the process; the failing cycle returns and the scheduler
\* goes on
C3_FeedFailureNeverEndsScheduler ==
    (argv \in SchedulerModes /\ feed.outcome \in {"timeout", "status", "payload"}
        /\ ~interrupted)
        => pc # "crashed"

\* C4: a cycle started with an empty registry calls Discovery exactly once,
\* before any collection fetch, and reloads the registry before it
\* fetches; when the reload is empty too the cycle returns the failure
\* outcome with no collection fetch made and no Reading row inserted
C4_EmptyRegistryRunsDiscoveryOnce ==
    (calls.load >= 1 /\ atStart.registry = EmptyRegistry)
        => /\ calls.discover = 1
           /\ (pc \in {"d_fetch", "d_upsert", "c_reload"}) => calls.cfetch = 0
           /\ calls.cfetch >= 1 => (calls.load = 2 /\ station_ids # {})
           /\ (calls.load = 2 /\ station_ids = {})
                 => /\ pc \in {"returned", "exit", "sleep", "collect", "stats",
                                "crashed"}
                    /\ outcome = "error"
                    /\ calls.cfetch = 0
                    /\ CycleRows = {}

\* a cycle that started empty, ran Discovery, found the registry still
\* empty and returned the failure outcome
C4_Witness ==
    /\ pc = "returned"
    /\ atStart.registry = EmptyRegistry
    /\ calls.discover = 1
    /\ calls.load = 2
    /\ station_ids = {}
    /\ outcome = "error"

\* C5: all Reading rows inserted by one cycle carry the same timestamp
C5_OneTimestampPerCycle ==
    LET all == readings \o txn
    IN  \A i, j \in 1..Len(all) :
            all[i].cycle = all[j].cycle => all[i].timestamp = all[j].timestamp

\* two cycles have each committed two rows, at different timestamps
C5_Witness ==
    \E i, j, k \in 1..Len(readings) :
        /\ i < j /\ j < k
        /\ readings[i].cycle = readings[j].cycle
        /\ readings[i].station_id # readings[j].station_id
        /\ readings[k].cycle # readings[j].cycle
        /\ readings[k].timestamp # readings[j].timestamp

\* C6: a Discovery whose fetch succeeded keeps exactly the catalog stations
\* at distance <= 800 m: every station of the returned list is a catalog
\* station within the radius, every catalog station within the radius is
\* in the list, and after the upsert each kept station is in the registry
\* with the row of one of its kept entries
C6_DiscoveryKeepsExactlyTheRadius ==
    /\ pc = "d_upsert" =>
          /\ \A k \in 1..Len(nearby) :
                /\ haversine(nearby[k].pos) <= SEARCH_RADIUS_M * 10
                /\ \E j \in 1..Len(upstream) :
                      /\ upstream[j].id = nearby[k].station_id
                      /\ upstream[j].pos = nearby[k].pos
                      /\ upstream[j].commonName = nearby[k].station_name
          /\ \A j \in 1..Len(upstream) :
                haversine(upstream[j].pos) <= SEARCH_RADIUS_M * 10
                    => \E k \in 1..Len(nearby) :
                          /\ nearby[k].station_id = upstream[j].id
                          /\ nearby[k].pos = upstream[j].pos
    /\ (feed = [by |-> "discover", outcome |-> "ok"]
          /\ (pc = "c_reload" \/ (pc = "exit" /\ argv = "--discover"))) =>
          \A k \in 1..Len(nearby) :
              /\ haversine(registry[nearby[k].station_id].pos)
                     <= SEARCH_RADIUS_M * 10
              /\ \E j \in 1..Len(nearby) :
                    /\ nearby[j].station_id = nearby[k].station_id
                    /\ registry[nearby[k].station_id] = RegistryRow(nearby[j])

\* Discovery has kept S1 at 799.5 m and dropped S2 at 800.3 m, and has
\* upserted S1
C6_Witness ==
    /\ feed = [by |-> "discover", outcome |-> "ok"]
    /\ pc \in {"exit", "c_reload"}
    /\ discovered.catalog = << eQueensBare, eExhibitionEdge >>
    /\ Len(nearby) = 1
    /\ registry["S1"] # NoRow
    /\ registry["S1"].distance_m = 800

\* C7: a Discovery run against the catalog the previous completed
\* Discovery saw leaves the registry as that run left it
C7_DiscoveryIdempotent ==
    [][(pc = "d_upsert" /\ discovered.seen /\ discovered.catalog = upstream)
          => registry' = registry]_vars

\* a second Discovery is about to upsert the stations of the catalog the
\* first one has upserted
C7_Witness ==
    /\ pc = "d_upsert"
    /\ discovered.seen
    /\ discovered.catalog = upstream
    /\ Len(nearby) >= 2
    /\ registry # EmptyRegistry

\* C8 (as claimed): when the fetch of a Discovery fails, Discovery returns
\* an empty list to its caller, with the registry as it was
C8_DiscoveryFeedFailureReturnsEmpty ==
    (feed.by = "discover" /\ feed.outcome # "ok")
        => /\ pc # "crashed"
           /\ nearby = << >>
           /\ registry = atDiscovery

\* C9: a burst makes exactly BurstCycles cycles and BurstCycles - 1 sleeps,
\* every sleep after a cycle that is not the last and before the next one,
\* whatever the cycles return
C9_BurstCyclesAndSleeps ==
    argv = "--burst"
        => /\ cycles <= BurstCycles
           /\ pc = "exit" => (cycles = BurstCycles /\ sleeps = BurstCycles - 1)
           /\ pc = "sleep" => (sleeps = cycles /\ cycles < BurstCycles)
           /\ pc = "collect" => (sleeps = cycles /\ cycles < BurstCycles)
           /\ (InCycle \/ pc \in {"returned", "crashed"})
                 => sleeps = cycles - 1
           /\ pc = "start" => (cycles = 0 /\ sleeps = 0)

\* a burst has ended after five cycles and four sleeps, its last cycle a
\* failure and an earlier one a success
C9_Witness ==
    /\ argv = "--burst"
    /\ pc = "exit"
    /\ cycles = 5
    /\ sleeps = 4
    /\ outcome = "error"
    /\ Len(readings) > 0

\* C10 (as claimed): in continuous mode the interrupt takes effect only
\* between cycles, never inside a cycle that has started
C10_InterruptOnlyBetweenCycles ==
    (argv = "" /\ interrupted) => cut = "between"

\* C10 (amended): the interrupt takes effect wherever it arrives; a cycle
\* it cuts short before the commit leaves no Reading row of its own in the
\* table, and one it cuts short after the commit leaves all of them
C10_CutShortCycleWritesNothingOrAll ==
    /\ cut = "before commit"
          => (Len(readings) = atStart.n /\ txn = << >> /\ outcome = "none")
    /\ cut = "after commit"
          => (Len(readings) = atStart.n + collected /\ txn = << >>)

\* the interrupt has cut a cycle short after it had inserted a row
C10_Witness ==
    /\ argv = ""
    /\ cut = "before commit"
    /\ collected >= 1
    /\ todo # {}

\* C11 (as claimed): in continuous mode the interrupt, whenever it arrives,
\* is followed by the statistics report and a clean exit; the scheduler
\* never stops on an interrupt without running the report
C11_InterruptAlwaysShowsStats ==
    (argv = "" /\ interrupted)
        => (pc \in {"stats", "exit"} /\ (pc = "exit" => statsShown))

\* C12: Readings are append-only: across every step of every operation
\* (schema bootstrap, Discovery, collection cycle, statistics) each row of
\* the table stays where it is with the values it was written with, and
\* the number of rows never decreases
C12_ReadingsAppendOnly ==
    [][/\ Len(readings') >= Len(readings)
       /\ SubSeq(readings', 1, Len(readings)) = readings]_vars

\* a later process has bootstrapped the schema over a table that already
\* held rows and its own cycle has committed a row after them
C12_Witness ==
    /\ runs >= 2
    /\ pc = "returned"
    /\ outcome = "ok"
    /\ collected >= 1
    /\ atStart.n >= 1
    /\ Len(readings) = atStart.n + collected

\* C13: every Reading row of a cycle carries a station identifier that had
\* a row in the registry when that cycle loaded the registry (the load the
\* cycle went on with: the reload, if Discovery ran first)
C13_RowsOnlyForMonitoredIds ==
    \A r \in CycleRows :
        /\ r.station_id \in station_ids
        /\ atFetch[r.station_id] # NoRow

\* a finished cycle that wrote rows while the fetched catalog also listed
\* a serviceable station the registry does not hold, and wrote none for it
C13_Witness ==
    /\ pc = "returned"
    /\ outcome = "ok"
    /\ collected >= 1
    /\ "S3" \notin station_ids
    /\ Listed(fetched.catalog, "S3")
    /\ Flag(LastEntry(fetched.catalog, "S3"), "Installed") # "false"
    /\ Flag(LastEntry(fetched.catalog, "S3"), "Locked") # "true"
    /\ \A r \in CycleRows : r.station_id # "S3"

\* the number of rows of the current cycle that are in the committed table
CommittedOfCycle ==
    IF cycles = 0 THEN 0
    ELSE Cardinality({k \in 1..Len(readings) : readings[k].cycle = cycle})

\* C14: the inserts of one cycle become visible together: in every state
\* the committed table holds either none of the current cycle's rows or
\* all of them, the latter only once the cycle's commit has run; a cycle
\* that an internal failure aborts partway through its insert loop leaves
\* none
C14_CycleCommitsAtomically ==
    \/ CommittedOfCycle = 0
    \/ /\ CommittedOfCycle = collected
       /\ todo = {}
       /\ txn = << >>
       /\ pc = "c_report" \/ outcome = "ok" \/ cut = "after commit"

\* a cycle has failed inside its insert loop after it had inserted a row,
\* and the table holds what it held when the cycle began
C14_Witness ==
    /\ pc = "crashed"
    /\ ~interrupted
    /\ feed = [by |-> "collect", outcome |-> "ok"]
    /\ collected >= 1
    /\ CommittedOfCycle = 0
    /\ Len(readings) = atStart.n

\* the monitored stations of the current cycle that the fetched catalog
\* lists with an entry neither flagged not installed nor flagged locked
Eligible ==
    {i \in station_ids :
        /\ Listed(fetched.catalog, i)
        /\ Flag(LastEntry(fetched.catalog, i), "Installed") # "false"
        /\ Flag(LastEntry(fetched.catalog, i), "Locked") # "true"}

\* C15: a cycle whose registry is not empty and whose fetch succeeds
\* reports success also when every monitored station is absent from the
\* catalog or unserviceable: it returns "ok" and has written no row
C15_ZeroRowCycleReportsSuccess ==
    (/\ station_ids # {}
     /\ feed = [by |-> "collect", outcome |-> "ok"]
     /\ Eligible = {}
     /\ ~interrupted)
        => (/\ pc # "crashed"
            /\ outcome # "error"
            /\ pc = "returned" => outcome = "ok"
            /\ collected = 0
            /\ Len(readings) = atStart.n)

\* a cycle over a monitored set has returned after a successful fetch of a
\* catalog that holds none of its stations in a serviceable state
C15_Witness ==
    /\ pc = "returned"
    /\ outcome = "ok"
    /\ station_ids # {}
    /\ atStart.registry # EmptyRegistry
    /\ feed = [by |-> "collect", outcome |-> "ok"]
    /\ Eligible = {}
    /\ CycleRows = {}

\* the number a catalog entry reports under a property key, zero when the
\* entry has no such property
Reported(entry, k) ==
    IF Flag(entry, k) = Absent THEN 0
    ELSE CHOOSE n \in 0..9 : ToString(n) = Flag(entry, k)

\* C16: every Reading row is a snapshot of the catalog entry fetched in
\* the same cycle: its name and coordinates are the entry's (not the
\* registry's), its five counts are the values the entry reports, and a
\* count the entry does not report is stored as zero
C16_RowIsSnapshotOfCatalogEntry ==
    \A r \in CycleRows :
        LET e == LastEntry(fetched.catalog, r.station_id)
        IN  /\ r.station_name = e.commonName
            /\ r.pos = e.pos
            /\ r.available_bikes = Reported(e, "NbBikes")
            /\ r.standard_bikes = Reported(e, "NbStandardBikes")
            /\ r.ebikes = Reported(e, "NbEBikes")
            /\ r.empty_docks = Reported(e, "NbEmptyDocks")
            /\ r.total_docks = Reported(e, "NbDocks")

\* a cycle has written a row for S1 under the new name and position the
\* catalog gives it, unlike the registry's, with all five counts zero as
\* the entry reports none, and a row for S2 with the two counts its entry
\* reports and zero for the other three
C16_Witness ==
    /\ registry["S1"] # NoRow
    /\ registry["S1"].station_name = "Queens Gate"
    /\ \E r \in CycleRows :
          /\ r.station_id = "S1"
          /\ r.station_name = "Queens Gate West"
          /\ r.pos = "PNear"
          /\ r.pos # registry["S1"].pos
          /\ r.available_bikes = 0 /\ r.standard_bikes = 0 /\ r.ebikes = 0
          /\ r.empty_docks = 0 /\ r.total_docks = 0
    /\ \E r \in CycleRows :
          /\ r.station_id = "S2"
          /\ r.available_bikes = 1 /\ r.total_docks = 8
          /\ r.standard_bikes = 0 /\ r.ebikes = 0 /\ r.empty_docks = 0

\* C17 (as claimed): a collection cycle makes at most one network call to
\* the feed and reads the registry exactly once, whether the registry is
\* empty or not when the cycle starts
C17_OneFetchOneRegistryRead ==
    cycles >= 1 => (calls.fetch <= 1 /\ calls.load = 1)

\* C17 (amended): a cycle started with a non-empty registry makes at most
\* one network call and reads the registry exactly once; a cycle started
\* with an empty registry makes at most two network calls (Discovery's and
\* the collection's own) and at most two registry reads (the load and the
\* reload after Discovery), and makes both calls and both reads when it
\* ends in success
C17_FetchesAndReadsByStartingRegistry ==
    cycles >= 1 =>
        /\ atStart.registry # EmptyRegistry
              => (/\ calls.fetch <= 1
                  /\ calls.load = 1
                  /\ calls.discover = 0)
        /\ atStart.registry = EmptyRegistry
              => (/\ calls.fetch <= 2
                  /\ calls.load \in {1, 2}
                  /\ calls.discover = 1
                  /\ calls.cfetch <= 1
                  /\ outcome = "ok" => (calls.fetch = 2 /\ calls.load = 2))

\* a cycle started with an empty registry has ended in success after
\* Discovery's fetch and its own, and after the load and the reload
C17_Witness ==
    /\ pc = "returned"
    /\ outcome = "ok"
    /\ atStart.registry = EmptyRegistry
    /\ calls.fetch = 2
    /\ calls.load = 2
    /\ collected >= 1

\* C18: a cycle that starts with a non-empty registry never invokes
\* Discovery and leaves the registry as it found it, whatever the catalog
\* holds and however the fetch turns out; along every step of such a cycle
\* the registry does not change
C18_PopulatedRegistryIsLeftAlone ==
    (cycles >= 1 /\ atStart.registry # EmptyRegistry)
        => (/\ calls.discover = 0
            /\ registry = atStart.registry
            /\ station_ids = get_monitored_station_ids(atStart.registry))

\* the fifth cycle of a burst has ended over the registry the first cycle
\* discovered, although the catalog has changed since and now holds other
\* stations within the radius than the registry does
C18_Witness ==
    /\ argv = "--burst"
    /\ cycles = 5
    /\ pc = "returned"
    /\ atStart.registry # EmptyRegistry
    /\ registry = atStart.registry
    /\ discovered.seen
    /\ fetched.seen
    /\ fetched.catalog # discovered.catalog
    /\ registry # UpsertAll(EmptyRegistry,
                            SortByDistance(Filter(fetched.catalog)))

\* C19: Discovery never removes a registry row: along every step a station
\* that has a row keeps one, so the set of monitored identifiers only
\* grows or stays the same, and a row changes only in a Discovery upsert
\* that found its station within the radius; a station that has left the
\* radius or the catalog keeps the row it had, unchanged
C19_DiscoveryNeverRemovesARow ==
    [][\A i \in StationIds :
          /\ registry[i] # NoRow => registry'[i] # NoRow
          /\ registry'[i] # registry[i]
                => (/\ pc = "d_upsert"
                    /\ \E k \in 1..Len(nearby) : nearby[k].station_id = i)]_vars

\* an explicit Discovery has found S1 but not S2 within the radius, over a
\* registry that held both, and S2 still has the row it had before
C19_Witness ==
    /\ argv = "--discover"
    /\ pc = "exit"
    /\ feed = [by |-> "discover", outcome |-> "ok"]
    /\ atDiscovery["S2"] # NoRow
    /\ \E k \in 1..Len(nearby) : nearby[k].station_id = "S1"
    /\ \A k \in 1..Len(nearby) : nearby[k].station_id # "S2"
    /\ registry["S2"] = atDiscovery["S2"]
    /\ registry["S1"] # atDiscovery["S1"]

\* the positions of the current cycle's rows for one station, among the
\* committed rows and the rows inserted and not yet committed
RowsOfCycleFor(sid) ==
    LET all == readings \o txn
    IN  IF cycles = 0 THEN {}
        ELSE {k \in 1..Len(all) :
                 all[k].cycle = cycle /\ all[k].station_id = sid}

\* C20: a cycle writes at most one row per station identifier, also when
\* the fetched catalog lists an identifier more than once; and in a cycle
\* that ends in success the number of rows written is the number of
\* monitored identifiers that the fetched catalog lists and that are
\* neither flagged not installed nor flagged locked
C20_OneRowPerEligibleStation ==
    /\ \A i \in StationIds : Cardinality(RowsOfCycleFor(i)) <= 1
    /\ (cycles >= 1 /\ outcome = "ok")
          => (/\ collected = Cardinality(Eligible)
              /\ CommittedOfCycle = Cardinality(Eligible)
              /\ Len(readings) = atStart.n + Cardinality(Eligible)
              /\ \A i \in StationIds :
                    Cardinality(RowsOfCycleFor(i))
                        = IF i \in Eligible THEN 1 ELSE 0)

\* a cycle over the monitored S1 and S2 has ended in success with one row,
\* for S1, after fetching a catalog that lists S1 twice and S2 as locked
C20_Witness ==
    /\ pc = "returned"
    /\ outcome = "ok"
    /\ station_ids = {"S1", "S2"}
    /\ Cardinality({k \in 1..Len(fetched.catalog) :
                       fetched.catalog[k].id = "S1"}) = 2
    /\ Eligible = {"S1"}
    /\ Cardinality(RowsOfCycleFor("S1")) = 1
    /\ CommittedOfCycle = 1

====
